---------------------------- MODULE Spec2Model ----------------------------
(***************************************************************************)
(* A model of woo9600.py: the WooCommerce sales report.                    *)
(*                                                                         *)
(*   get_sales_data -> aggregate_daily_sales -> calculate_moving_average   *)
(*   (twice) -> RetroASCIIGraph.draw -> print                              *)
(*                                                                         *)
(* Numbers.  The sales counts are Python ints.  Smoothed values are floats *)
(* rounded to 2 decimals; the model holds them exactly, as an integer      *)
(* number of hundredths.  A weight is the exact rational n/den plus a tiny *)
(* part of e units of 1e-11 (the scale on which the tolerance 1e-10 of     *)
(* line 66 is 10 units); the tiny part is what the tolerance is about.     *)
(* Python's None is the empty tuple and a present value v is <<v>>.        *)
(***************************************************************************)
EXTENDS Integers, Sequences, FiniteSets, TLC

VARIABLES
    ma,      \* one call of calculate_moving_average: arguments and outcome
    norm,    \* one call of normalize_data
    agg,     \* one call of aggregate_daily_sales
    dr,      \* one call of RetroASCIIGraph().draw
    run      \* one run of main(), get_sales_data's loop included

vars == <<ma, norm, agg, dr, run>>

\* A component that a specification does not exercise stays idle.
Idle == [pc |-> "idle"]

--------------------------------------------------------------------------
(* Python values *)

None == <<>>
Some(v) == <<v>>
IsNone(x) == x = None
Val(x) == x[1]

Abs(x) == IF x < 0 THEN -x ELSE x
Min(a, b) == IF a < b THEN a ELSE b
Max(a, b) == IF a > b THEN a ELSE b

\* int(): truncation toward zero of the rational num/den, den # 0.
TruncDiv(num, den) ==
    LET q == Abs(num) \div Abs(den)
    IN  IF (num >= 0) = (den > 0) THEN q ELSE -q

\* s[lo:hi] with Python's index rules (negative indices count from the end,
\* out-of-range indices are clamped); lo and hi are 0-based.
PySlice(s, lo, hi) ==
    LET n == Len(s)
        a == IF lo < 0 THEN Max(lo + n, 0) ELSE Min(lo, n)
        b == IF hi < 0 THEN Max(hi + n, 0) ELSE Min(hi, n)
    IN  IF a >= b THEN <<>> ELSE SubSeq(s, a + 1, b)

\* zip(a, b): pairs up to the shorter length.
Zip(a, b) == [k \in 1..Min(Len(a), Len(b)) |-> <<a[k], b[k]>>]

\* All sequences over S of length at most n.
SeqsUpTo(S, n) == UNION {[1..k -> S] : k \in 0..n}

--------------------------------------------------------------------------
(* WooCommerceAnalytics.calculate_moving_average                          *)

\* The tolerance 1e-10 of line 66, in units of 1e-11.
TolUnits == 10

\* weights=None (the default argument).
NoWeights == [given |-> FALSE, den |-> 1, w |-> <<>>]

RECURSIVE SumN(_)
SumN(w) == IF w = <<>> THEN 0 ELSE w[1].n + SumN(Tail(w))

RECURSIVE SumE(_)
SumE(w) == IF w = <<>> THEN 0 ELSE w[1].e + SumE(Tail(w))

\* Lines 60-61: [1/window] * window, for window # 0; a list times a negative
\* number is the empty list.
ResolveWeights(window, weights) ==
    IF weights.given THEN weights
    ELSE [given |-> TRUE, den |-> Abs(window),
          w |-> [k \in 1..window |-> [n |-> IF window > 0 THEN 1 ELSE -1, e |-> 0]]]

\* Line 63.
LengthMismatch(wts, window) == Len(wts.w) # window

\* Line 66: abs(sum(weights) - 1) > 1e-10.  sum - 1 is c/den + t * 1e-11 with
\* c and t integers; when c # 0 its size is at least 1/den, far above the
\* tolerance and the tiny part, and when c = 0 the tiny part decides.
NotNormalized(wts) ==
    LET c == SumN(wts.w) - wts.den
        t == SumE(wts.w)
    IN  IF c # 0 THEN TRUE ELSE Abs(t) > TolUnits

ValidateSumFirst(wts, window) ==
    IF NotNormalized(wts) THEN "ValueError: Weights must sum to 1"
    ELSE IF LengthMismatch(wts, window)
         THEN "ValueError: Length of weights must equal window size"
         ELSE "ok"

\* Lines 63-67: the two checks, in the code's order.
ValidateWeights(wts, window) ==
    IF LengthMismatch(wts, window)
    THEN "ValueError: Length of weights must equal window size"
    ELSE IF NotNormalized(wts) THEN "ValueError: Weights must sum to 1"
         ELSE "ok"

RECURSIVE SumProdN(_)
SumProdN(pairs) ==
    IF pairs = <<>> THEN 0 ELSE pairs[1][1].n * pairs[1][2] + SumProdN(Tail(pairs))

RECURSIVE SumProdE(_)
SumProdE(pairs) ==
    IF pairs = <<>> THEN 0 ELSE pairs[1][1].e * pairs[1][2] + SumProdE(Tail(pairs))

Reverse(s) == [k \in 1..Len(s) |-> s[Len(s) + 1 - k]]

WeightedSumNewestFirst(wts, points) ==
    LET pairs == Zip(Reverse(wts.w), points)
    IN  [num |-> SumProdN(pairs), den |-> wts.den, tiny |-> SumProdE(pairs)]

\* Line 75: sum(w * v for w, v in zip(weights, points)), the exact value
\* num/den + tiny * 1e-11.
WeightedSum(wts, points) ==
    LET pairs == Zip(wts.w, points)
    IN  [num |-> SumProdN(pairs), den |-> wts.den, tiny |-> SumProdE(pairs)]

\* Line 76: round(x, 2), as a number of hundredths.  Python rounds the float
\* to the nearest hundredth and an exact tie to the even one; the tiny part
\* breaks a tie of the rational part.
Round2(x) ==
    LET q == (100 * x.num) \div x.den
        r == (100 * x.num) % x.den
    IN  IF 2 * r < x.den THEN q
        ELSE IF 2 * r > x.den THEN q + 1
        ELSE IF x.tiny > 0 THEN q + 1
        ELSE IF x.tiny < 0 THEN q
        ELSE IF q % 2 = 0 THEN q ELSE q + 1

MAEntryOffByOne(data, window, wts, i) ==
    IF i < window THEN None
    ELSE Some(Round2(WeightedSum(wts, PySlice(data, i - window + 1, i + 1))))

\* Lines 71-76: the loop body for the 0-based index i.
MAEntry(data, window, wts, i) ==
    IF i < window - 1 THEN None
    ELSE Some(Round2(WeightedSum(wts, PySlice(data, i - window + 1, i + 1))))

Raised(e) == [status |-> "raised", exc |-> e, value |-> None]
Returned(v) == [status |-> "returned", exc |-> "none", value |-> v]

\* Lines 59-78.  1/window raises ZeroDivisionError for window = 0.
calculate_moving_average(data, window, weights) ==
    IF ~weights.given /\ window = 0 THEN Raised("ZeroDivisionError")
    ELSE LET wts == ResolveWeights(window, weights)
             chk == ValidateWeights(wts, window)
         IN  IF chk # "ok" THEN Raised(chk)
             ELSE Returned([k \in 1..Len(data) |-> MAEntry(data, window, wts, k - 1)])

(* Inputs of the calls checked *)

MaxLen == 3
MaxWindow == 3

DataVals == {0, 1, 3}
TinyChoices == {-12, 0, 6}

\* Supplied weights are quarters; the last one carries the tiny part.
Quarters(ns, t) ==
    [given |-> TRUE, den |-> 4,
     w |-> [k \in 1..Len(ns) |-> [n |-> ns[k], e |-> IF k = Len(ns) THEN t ELSE 0]]]

WeightInputs ==
    {NoWeights} \cup {Quarters(ns, t) : ns \in SeqsUpTo(0..4, MaxWindow), t \in TinyChoices}

DataInputs == SeqsUpTo(DataVals, MaxLen) \cup {<<1, 2, 3, 4, 5, 6, 7>>}
WindowInputs == (0..MaxWindow) \cup {7}

MAInit ==
    ma \in [pc : {"call"}, data : DataInputs, window : WindowInputs,
            weights : WeightInputs, out : {Returned(<<>>)}]

MACall ==
    /\ ma.pc = "call"
    /\ ma' = [ma EXCEPT !.pc = "done",
                        !.out = calculate_moving_average(ma.data, ma.window, ma.weights)]
    /\ UNCHANGED <<norm, agg, dr, run>>

NextMA == MACall

InitMA == MAInit /\ norm = Idle /\ agg = Idle /\ dr = Idle /\ run = Idle

SpecMA == InitMA /\ [][NextMA]_vars

MAReturned == ma.pc = "done" /\ ma.out.status = "returned"
MARaised == ma.pc = "done" /\ ma.out.status = "raised"

\* C1: for window >= 1 and accepted weights the result has the length of data,
\* position i is None exactly when i < window - 1 and a number otherwise; with
\* window > len(data) every position is None.
C1_UndefinedPrefix ==
    (MAReturned /\ ma.window >= 1) =>
        /\ Len(ma.out.value) = Len(ma.data)
        /\ \A i \in 0..(Len(ma.data) - 1) :
              /\ IsNone(ma.out.value[i + 1]) <=> (i < ma.window - 1)
              /\ (i >= ma.window - 1) =>
                    /\ Len(ma.out.value[i + 1]) = 1
                    /\ Val(ma.out.value[i + 1]) \in Int
        /\ (ma.window > Len(ma.data)) =>
              \A k \in 1..Len(ma.data) : IsNone(ma.out.value[k])

\* A call that yields both undefined and defined positions.
C1_Witness ==
    /\ MAReturned /\ ma.window = 2 /\ Len(ma.data) = 3 /\ ma.weights.given
    /\ IsNone(ma.out.value[1]) /\ ~IsNone(ma.out.value[2])

\* The weights in force: the supplied ones, or 1/window each.
WeightNum(k) == IF ma.weights.given THEN ma.weights.w[k + 1].n ELSE 1
WeightDen == IF ma.weights.given THEN ma.weights.den ELSE ma.window

\* The numerator of sum over k in 0..window-1 of weights[k] * data[i-window+1+k].
RECURSIVE SpecSum(_, _)
SpecSum(i, k) ==
    IF k < 0 THEN 0
    ELSE WeightNum(k) * ma.data[(i - ma.window + 1 + k) + 1] + SpecSum(i, k - 1)

\* h hundredths is the rational num/den rounded to 2 decimals.
IsRounded(h, num, den) == 2 * Abs(100 * num - h * den) <= den

\* C2: at every index i >= window - 1 the value is the sum over k of
\* weights[k] * data[i-window+1+k] rounded to 2 decimals (weights[window-1] on
\* the current point); without weights each weight is 1/window, so window 7
\* over [1..7] gives 4.0 at index 6 and a constant series v gives v.
C2_WeightedWindowSum ==
    (MAReturned /\ ma.window >= 1) =>
        /\ \A i \in (ma.window - 1)..(Len(ma.data) - 1) :
              IsRounded(Val(ma.out.value[i + 1]), SpecSum(i, ma.window - 1), WeightDen)
        /\ (ma.data = <<1, 2, 3, 4, 5, 6, 7>> /\ ma.window = 7 /\ ~ma.weights.given) =>
              ma.out.value = <<None, None, None, None, None, None, Some(400)>>
        /\ (~ma.weights.given /\ \A k \in 1..Len(ma.data) : ma.data[k] = ma.data[1]) =>
              \A i \in (ma.window - 1)..(Len(ma.data) - 1) :
                  Val(ma.out.value[i + 1]) = 100 * ma.data[1]

\* Unequal weights [1/4, 3/4] over unequal points.
C2_Witness ==
    /\ MAReturned /\ ma.window = 2 /\ ma.weights.given
    /\ ma.weights.w[1].n = 1 /\ ma.weights.w[2].n = 3
    /\ ma.data = <<1, 3, 3>> /\ ma.out.value = <<None, Some(250), Some(300)>>

\* The sum of the supplied weights differs from 1 by more than 1e-10.
SumOffByMoreThanTol ==
    \/ SumN(ma.weights.w) # ma.weights.den
    \/ SumE(ma.weights.w) > TolUnits
    \/ SumE(ma.weights.w) < -TolUnits

\* C3: with weights supplied, a length other than window gives the length
\* error; otherwise a sum off by more than 1e-10 gives the not-normalized
\* error; an error returns no series; a vector of the right length with its
\* sum within the tolerance is accepted.
C3_WeightValidation ==
    (ma.pc = "done" /\ ma.weights.given) =>
        /\ Len(ma.weights.w) # ma.window =>
              /\ ma.out.status = "raised"
              /\ ma.out.exc = "ValueError: Length of weights must equal window size"
        /\ (Len(ma.weights.w) = ma.window /\ SumOffByMoreThanTol) =>
              /\ ma.out.status = "raised"
              /\ ma.out.exc = "ValueError: Weights must sum to 1"
        /\ (Len(ma.weights.w) = ma.window /\ ~SumOffByMoreThanTol) =>
              ma.out.status = "returned"
        /\ ma.out.status = "raised" => ma.out.value = None

\* Both checks would fail; the length error is the one raised.
C3_Witness ==
    /\ MARaised /\ ma.weights.given /\ Len(ma.weights.w) = 2 /\ ma.window = 3
    /\ SumOffByMoreThanTol /\ Len(ma.data) = 3
    /\ ma.out.exc = "ValueError: Length of weights must equal window size"

--------------------------------------------------------------------------
(* RetroASCIIGraph: the class's second definitions of __init__,           *)
(* normalize_data and draw are the ones in force.                         *)

\* Lines 157-162.
Width == 100
Height == 20
MaxY == 20
LeftMargin == 6
TotalWidth == Width + LeftMargin + 1

RowNoClamp(x) == Height - 1 - TruncDiv(x * (Height - 1), 100 * MaxY)

RowScaledByHeight(x) == Height - 1 - TruncDiv(Min(x, 100 * MaxY) * Height, 100 * MaxY)

\* Line 167: height - 1 - int((min(x, max_y) / max_y) * (height - 1)) for a
\* value of x hundredths.  The quotient is exact for x = 0 and x = max_y and
\* otherwise at least 1/2000 away from an integer, so the float result
\* truncates as the exact one does.
Row(x) == Height - 1 - TruncDiv(Min(x, 100 * MaxY) * (Height - 1), 100 * MaxY)

\* Lines 164-169.
normalize_data(data) ==
    [k \in 1..Len(data) |-> IF IsNone(data[k]) THEN None ELSE Some(Row(Val(data[k])))]

(* Inputs of the calls checked: None, and values in hundredths *)

MaxPoints == 2

PointInputs ==
    {None} \cup {Some(v) : v \in {-2000, -200, -106, -105, -100, -1, 0, 1, 105, 106,
                                  1000, 1999, 2000, 2001, 2500}}

NormInit == norm \in [pc : {"call"}, data : SeqsUpTo(PointInputs, MaxPoints), out : {<<>>}]

NormCall ==
    /\ norm.pc = "call"
    /\ norm' = [norm EXCEPT !.pc = "done", !.out = normalize_data(norm.data)]
    /\ UNCHANGED <<ma, agg, dr, run>>

NextNorm == NormCall

InitNorm == NormInit /\ ma = Idle /\ agg = Idle /\ dr = Idle /\ run = Idle

SpecNorm == InitNorm /\ [][NextNorm]_vars

NormDone == norm.pc = "done"
Rows == 0..(Height - 1)

\* None stays None at its position.
NonePreserved ==
    /\ Len(norm.out) = Len(norm.data)
    /\ \A k \in 1..Len(norm.data) : IsNone(norm.out[k]) <=> IsNone(norm.data[k])

\* A higher value never gets a larger row index than a lower one.
HigherIsNotLower ==
    \A k, l \in 1..Len(norm.data) :
        (~IsNone(norm.data[k]) /\ ~IsNone(norm.data[l]) /\ Val(norm.data[k]) >= Val(norm.data[l]))
            => Val(norm.out[k]) <= Val(norm.out[l])

\* C4 as stated: every defined value maps to a row in [0, height-1], None
\* stays None, and higher values never map to a larger row index.
C4_AsStated ==
    NormDone =>
        /\ NonePreserved
        /\ HigherIsNotLower
        /\ \A k \in 1..Len(norm.data) :
              ~IsNone(norm.data[k]) => Val(norm.out[k]) \in Rows

\* C4 amended: every defined value >= 0 maps to a row in [0, height-1] (a
\* negative value is not clamped and may map to a row >= height); None stays
\* None, and higher values never map to a larger row index.
C4_RowInRange ==
    NormDone =>
        /\ NonePreserved
        /\ HigherIsNotLower
        /\ \A k \in 1..Len(norm.data) :
              (~IsNone(norm.data[k]) /\ Val(norm.data[k]) >= 0) => Val(norm.out[k]) \in Rows

\* A series with None and a value inside the range.
C4_Witness ==
    /\ NormDone /\ norm.data = <<None, Some(1000)>>
    /\ norm.out = <<None, Some(10)>>

\* C5: value == maxY gives row 0, value == 0 gives row height - 1, and every
\* value > maxY gives the row of maxY; height = maxY = 20.
C5_EndpointsAndClamp ==
    /\ Height = 20 /\ MaxY = 20
    /\ NormDone =>
        \A k \in 1..Len(norm.data) :
            /\ norm.data[k] = Some(100 * MaxY) => norm.out[k] = Some(0)
            /\ norm.data[k] = Some(0) => norm.out[k] = Some(Height - 1)
            /\ (~IsNone(norm.data[k]) /\ Val(norm.data[k]) > 100 * MaxY) =>
                  \A l \in 1..Len(norm.data) :
                      norm.data[l] = Some(100 * MaxY) => norm.out[k] = norm.out[l]
            /\ (~IsNone(norm.data[k]) /\ Val(norm.data[k]) > 100 * MaxY) => norm.out[k] = Some(0)

\* maxY and a value above it, normalized in one call.
C5_Witness ==
    /\ NormDone /\ norm.data = <<Some(2000), Some(2001)>>
    /\ norm.out = <<Some(0), Some(0)>>

--------------------------------------------------------------------------
(* WooCommerceAnalytics.aggregate_daily_sales                             *)
(*                                                                        *)
(* An order's date_created is a timestamp: its calendar day and hour as   *)
(* written, or a string that datetime.fromisoformat rejects.  A date key  *)
(* is the string strftime builds, a tuple of character codes: a digit is  *)
(* its value, and '-' is Dash, which sorts before every digit as in ASCII.*)

Dash == -1

Timestamp(y, m, d, hh) == [valid |-> TRUE, y |-> y, m |-> m, d |-> d, hh |-> hh]
Malformed == [valid |-> FALSE, y |-> 0, m |-> 0, d |-> 0, hh |-> 0]
Order(ts) == [date_created |-> ts]

\* %Y: the decimal digits of the year (glibc pads nothing).
RECURSIVE Digits(_)
Digits(n) == IF n < 10 THEN <<n>> ELSE Append(Digits(n \div 10), n % 10)

\* %m and %d: two digits, zero-padded.
Pad2(n) == <<n \div 10, n % 10>>

\* Line 55: datetime.fromisoformat(...).strftime('%Y-%m-%d'); the time of day
\* and any UTC offset are dropped, the day is the one written.
DateKey(ts) == Digits(ts.y) \o <<Dash>> \o Pad2(ts.m) \o <<Dash>> \o Pad2(ts.d)

\* Line 56: daily_sales[date] += 1 on a defaultdict(int), which keeps its
\* keys in insertion order.
Bump(daily_sales, date) ==
    IF \E k \in 1..Len(daily_sales) : daily_sales[k][1] = date
    THEN [k \in 1..Len(daily_sales) |->
            IF daily_sales[k][1] = date
            THEN <<date, daily_sales[k][2] + 1>> ELSE daily_sales[k]]
    ELSE Append(daily_sales, <<date, 1>>)

\* Lines 54-56: the loop over the orders, from the dictionary built so far.
RECURSIVE CountOrders(_, _)
CountOrders(orders, daily_sales) ==
    IF orders = <<>> THEN daily_sales
    ELSE CountOrders(Tail(orders), Bump(daily_sales, DateKey(Head(orders).date_created)))

\* Python's order on strings: by the first differing character, a proper
\* prefix first.
RECURSIVE StrLess(_, _)
StrLess(a, b) ==
    IF b = <<>> THEN FALSE
    ELSE IF a = <<>> THEN TRUE
    ELSE IF a[1] # b[1] THEN a[1] < b[1]
    ELSE StrLess(Tail(a), Tail(b))

\* Python's order on the (date, count) items.
ItemLess(a, b) == StrLess(a[1], b[1]) \/ (a[1] = b[1] /\ a[2] < b[2])

RECURSIVE Insert(_, _)
Insert(sorted, item) ==
    IF sorted = <<>> THEN <<item>>
    ELSE IF ItemLess(item, Head(sorted)) THEN <<item>> \o sorted
    ELSE <<Head(sorted)>> \o Insert(Tail(sorted), item)

Unsorted(items) == items

\* Line 57: sorted(daily_sales.items()); a stable sort, each item placed
\* after the items not greater than it.
RECURSIVE Sorted(_)
Sorted(items) ==
    IF items = <<>> THEN <<>>
    ELSE Insert(Sorted(SubSeq(items, 1, Len(items) - 1)), items[Len(items)])

\* Lines 52-57.  The result is the dict as the tuple of its items in
\* iteration order.  fromisoformat raises ValueError on the first order
\* whose timestamp it cannot parse.
aggregate_daily_sales(orders) ==
    IF \E k \in 1..Len(orders) : ~orders[k].date_created.valid
    THEN Raised("ValueError: Invalid isoformat string")
    ELSE Returned(Sorted(CountOrders(orders, <<>>)))

(* Inputs of the calls checked.  The commerce platform stores dates of    *)
(* four-digit years.                                                      *)

MaxOrders == 3

DayInputs == {<<2023, 12, 31>>, <<2024, 1, 1>>, <<2024, 1, 2>>, <<2024, 1, 10>>}
HourInputs == {9, 17}

OrderInputs ==
    {Order(Malformed)} \cup
    {Order(Timestamp(day[1], day[2], day[3], hh)) : day \in DayInputs, hh \in HourInputs}

AggInit ==
    agg \in [pc : {"call"}, orders : SeqsUpTo(OrderInputs, MaxOrders), out : {Returned(<<>>)}]

AggCall ==
    /\ agg.pc = "call"
    /\ agg' = [agg EXCEPT !.pc = "done", !.out = aggregate_daily_sales(agg.orders)]
    /\ UNCHANGED <<ma, norm, dr, run>>

NextAgg == AggCall

InitAgg == AggInit /\ ma = Idle /\ norm = Idle /\ dr = Idle /\ run = Idle

SpecAgg == InitAgg /\ [][NextAgg]_vars

AllParseable == \A k \in 1..Len(agg.orders) : agg.orders[k].date_created.valid

\* YYYY-MM-DD of a timestamp, written out digit by digit.
IsoDay(ts) ==
    <<ts.y \div 1000, (ts.y \div 100) % 10, (ts.y \div 10) % 10, ts.y % 10, Dash,
      ts.m \div 10, ts.m % 10, Dash, ts.d \div 10, ts.d % 10>>

\* A calendar day as a number that grows with the date.
DayNumber(ts) == ts.y * 10000 + ts.m * 100 + ts.d

RECURSIVE SumCounts(_)
SumCounts(items) == IF items = <<>> THEN 0 ELSE items[1][2] + SumCounts(Tail(items))

--------------------------------------------------------------------------
(* RetroASCIIGraph.draw (lines 171-234)                                   *)
(*                                                                        *)
(* A series is <<data, label, symbol>> with data a list of None or values *)
(* in hundredths.  The text returned is held by its parts, in the order   *)
(* of its lines.                                                          *)

\* The background glyph, the middle dot.
Dot == "dot"

\* Line 178: height rows of width dots.
BlankGraph == [y \in 1..Height |-> [x \in 1..Width |-> Dot]]

\* Lines 185, 214: int(i * x_scale) with x_scale = (width - 1) / (n - 1) for
\* n # 1 labels.  The float product truncates as the exact quotient does for
\* the label counts drawn here (it does not for n = 24).
Column(i, n) == TruncDiv(i * (Width - 1), n - 1)

\* Lines 184-187: one point of a series; row y is None or <<row>>, i is 0-based.
PlotPoint(graph, i, y, symbol, n) ==
    IF IsNone(y) THEN graph
    ELSE LET x == Column(i, n)
         IN  IF 0 <= x /\ x < Width /\ 0 <= Val(y) /\ Val(y) < Height
             THEN [graph EXCEPT ![Val(y) + 1][x + 1] = symbol]
             ELSE graph

\* Lines 183-187: the points of one series from index i on.
RECURSIVE PlotSeries(_, _, _, _, _)
PlotSeries(graph, rows, i, symbol, n) ==
    IF i >= Len(rows) THEN graph
    ELSE PlotSeries(PlotPoint(graph, i, rows[i + 1], symbol, n), rows, i + 1, symbol, n)

\* Lines 182-187: the series in the order given; a later write replaces an
\* earlier one.
RECURSIVE PlotAll(_, _, _)
PlotAll(graph, normalized_series, n) ==
    IF normalized_series = <<>> THEN graph
    ELSE PlotAll(PlotSeries(graph, Head(normalized_series)[1], 0,
                            Head(normalized_series)[3], n),
                 Tail(normalized_series), n)

DigitChar(d) == <<"0", "1", "2", "3", "4", "5", "6", "7", "8", "9">>[d + 1]

\* str(day) for day >= 0, as its characters.
Str(day) == [k \in 1..Len(Digits(day)) |-> DigitChar(Digits(day)[k])]

\* Lines 220-225: one label, centered on its position and cut at the width.
PlaceLabel(x_axis, pos, label) ==
    LET start == Max(0, pos - (Len(label) \div 2))
    IN  [x \in 1..Width |->
            IF x - 1 >= start /\ x - 1 - start < Len(label)
            THEN label[x - start] ELSE x_axis[x]]

\* Lines 213-225: the labels from index i on.
RECURSIVE PlaceLabels(_, _, _)
PlaceLabels(x_axis, days_ago, i) ==
    IF i >= Len(days_ago) THEN x_axis
    ELSE PlaceLabels(PlaceLabel(x_axis, Column(i, Len(days_ago)), Str(days_ago[i + 1])),
                     days_ago, i + 1)

\* Lines 171-234.  With exactly one label, line 181 divides by zero.
draw(data_series, days_ago) ==
    LET n == Len(days_ago)
        normalized_series ==
            [k \in 1..Len(data_series) |->
                <<normalize_data(data_series[k][1]), data_series[k][2], data_series[k][3]>>]
    IN  IF n = 1 THEN Raised("ZeroDivisionError")
        ELSE LET graph == PlotAll(BlankGraph, normalized_series, n)
             IN  Returned(
                   [legend |-> [k \in 1..Len(data_series) |->
                                  [symbol |-> data_series[k][3], label |-> data_series[k][2]]],
                    top |-> TotalWidth,
                    rows |-> [i \in 1..Height |->
                                [y_value |-> MaxY - (i - 1), cells |-> graph[i]]],
                    separator |-> <<LeftMargin, Width>>,
                    x_axis |-> PlaceLabels([x \in 1..Width |-> " "], days_ago, 0),
                    caption |-> <<"Days Ago", Width>>,
                    bottom |-> TotalWidth])

(* Inputs of the calls checked *)

MaxSeries == 2
MaxLabels == 3

SeriesDataInputs ==
    { <<>>,
      <<Some(100)>>,
      <<None, Some(500), Some(2500)>>,
      <<Some(-200), Some(0), Some(2000), Some(1000)>> }

SeriesInputs ==
    {<<data, "Daily Sales", "block">> : data \in SeriesDataInputs}
        \cup {<<data, "7-day Moving Average", "diamond">> : data \in SeriesDataInputs}

\* list(range(n - 1, -1, -1)), the labels main passes.
Countdown(n) == [k \in 1..n |-> n - k]

DrawInit ==
    dr \in [pc : {"call"}, data_series : SeqsUpTo(SeriesInputs, MaxSeries),
            days_ago : {Countdown(n) : n \in 0..MaxLabels}, out : {Returned(<<>>)}]

DrawCall ==
    /\ dr.pc = "call"
    /\ dr' = [dr EXCEPT !.pc = "done", !.out = draw(dr.data_series, dr.days_ago)]
    /\ UNCHANGED <<ma, norm, agg, run>>

NextDraw == DrawCall

InitDraw == DrawInit /\ ma = Idle /\ norm = Idle /\ agg = Idle /\ run = Idle

SpecDraw == InitDraw /\ [][NextDraw]_vars

\* Point i of series s lands on cell (y, x) of the canvas.
LandsOn(s, i, y, x) ==
    LET row == normalize_data(dr.data_series[s][1])[i + 1]
    IN  /\ ~IsNone(row) /\ Val(row) = y
        /\ Column(i, Len(dr.days_ago)) = x

\* C7 as stated: draw never fails, whatever the series and the labels, and a
\* point whose column or row lies outside the canvas changes no cell: every
\* marked cell is the landing place of a point of a series with that symbol.
C7_AsStated ==
    dr.pc = "done" =>
        /\ dr.out.status = "returned"
        /\ \A y \in 0..(Height - 1), x \in 0..(Width - 1) :
              dr.out.value.rows[y + 1].cells[x + 1] # Dot =>
                \E s \in 1..Len(dr.data_series) :
                    /\ dr.data_series[s][3] = dr.out.value.rows[y + 1].cells[x + 1]
                    /\ \E i \in 0..(Len(dr.data_series[s][1]) - 1) : LandsOn(s, i, y, x)

--------------------------------------------------------------------------
(* main (lines 237-279) and WooCommerceAnalytics.get_sales_data (28-50)   *)
(*                                                                        *)
(* The commerce API is the environment: each request is answered by a     *)
(* non-empty page of orders, by an empty page, or by an exception.        *)

DaysToFetch == 30
MAWindow == 7

\* Line 263: [0.05, 0.1, 0.1, 0.15, 0.15, 0.2, 0.25], in hundredths.
MainWeights ==
    [given |-> TRUE, den |-> 100,
     w |-> [k \in 1..7 |-> [n |-> <<5, 10, 10, 15, 15, 20, 25>>[k], e |-> 0]]]

RunInit ==
    run = [pc |-> "start", page |-> 0, requests |-> <<>>, responses |-> <<>>,
           all_orders |-> <<>>, fetch |-> "idle", stages |-> <<>>,
           daily_sales |-> <<>>, sales |-> <<>>, ma7 |-> <<>>, ma7_weighted |-> <<>>,
           visualization |-> <<>>, exc |-> "none", failed |-> "none", stdout |-> <<>>]

\* Lines 241-245 outside the try: keys.json missing or malformed ends the
\* program with an uncaught exception.
MainKeysFail ==
    /\ run.pc = "start"
    /\ run' = [run EXCEPT !.pc = "crashed", !.stdout = <<"header">>]
    /\ UNCHANGED <<ma, norm, agg, dr>>

\* Lines 238-252 and 29-33: the header, the credentials, the first message,
\* and get_sales_data's entry.
MainStart ==
    /\ run.pc = "start"
    /\ run' = [run EXCEPT !.pc = "fetch", !.page = 1, !.all_orders = <<>>,
                          !.fetch = "running", !.stages = <<"fetch">>,
                          !.stdout = <<"header", "Fetching sales data...">>]
    /\ UNCHANGED <<ma, norm, agg, dr>>

(* The answers of the commerce API *)

MaxPages == 3

Jan(d, hh) == Order(Timestamp(2024, 1, d, hh))

\* Nine orders over eight days, not in date order.
WeekPage ==
    <<Jan(8, 9), Jan(1, 9), Jan(2, 9), Jan(2, 17), Jan(3, 9), Jan(4, 9), Jan(5, 9),
      Jan(6, 9), Jan(7, 9)>>

PageInputs ==
    { <<Jan(1, 9)>>, <<Jan(2, 9), Jan(1, 17)>>, <<Order(Malformed)>>, WeekPage }

FetchPageAgain(orders) ==
    /\ run.pc = "fetch"
    /\ Len(run.requests) < MaxPages
    /\ run' = [run EXCEPT !.requests = Append(@, run.page),
                          !.responses = Append(@, orders),
                          !.all_orders = @ \o orders]
    /\ UNCHANGED <<ma, norm, agg, dr>>

\* Lines 36-48: the request for the current page is answered by a non-empty
\* page; its orders are appended and the next page is up.
FetchPage(orders) ==
    /\ run.pc = "fetch"
    /\ run.page <= MaxPages
    /\ run' = [run EXCEPT !.requests = Append(@, run.page),
                          !.responses = Append(@, orders),
                          !.all_orders = @ \o orders,
                          !.page = @ + 1]
    /\ UNCHANGED <<ma, norm, agg, dr>>

\* Lines 36-45 and 50: the request is answered by an empty page; the loop
\* breaks and get_sales_data returns all_orders.
FetchEmpty ==
    /\ run.pc = "fetch"
    /\ run' = [run EXCEPT !.requests = Append(@, run.page),
                          !.responses = Append(@, <<>>),
                          !.fetch = "returned",
                          !.pc = "aggregate"]
    /\ UNCHANGED <<ma, norm, agg, dr>>

\* Lines 36-42: the request or the decoding of its answer raises; the
\* exception leaves get_sales_data and reaches main's except clause.
FetchError ==
    /\ run.pc = "fetch"
    /\ run' = [run EXCEPT !.requests = Append(@, run.page),
                          !.fetch = "raised",
                          !.exc = "DataSourceError", !.failed = "fetch",
                          !.pc = "except"]
    /\ UNCHANGED <<ma, norm, agg, dr>>

FailButCarryOn(stage, exc) == [run EXCEPT !.stages = Append(@, stage), !.exc = exc,
                                          !.failed = stage, !.pc = "ma7"]

\* Line 276: a stage of the try block has raised and control is in the
\* except clause.
Fail(stage, exc) == [run EXCEPT !.stages = Append(@, stage), !.exc = exc,
                                !.failed = stage, !.pc = "except"]

\* list(daily_sales.values())
Values(items) == [k \in 1..Len(items) |-> items[k][2]]

\* Lines 253-257.
MainAggregate ==
    /\ run.pc = "aggregate"
    /\ LET r == aggregate_daily_sales(run.all_orders)
       IN  run' = IF r.status = "raised" THEN Fail("aggregate", r.exc)
                  ELSE [run EXCEPT !.stages = Append(@, "aggregate"),
                                   !.daily_sales = r.value,
                                   !.stdout = Append(@, "Processing statistics..."),
                                   !.sales = Values(r.value),
                                   !.pc = "ma7"]
    /\ UNCHANGED <<ma, norm, agg, dr>>

\* Line 259.
MainMA7 ==
    /\ run.pc = "ma7"
    /\ LET r == calculate_moving_average(run.sales, MAWindow, NoWeights)
       IN  run' = IF r.status = "raised" THEN Fail("ma7", r.exc)
                  ELSE [run EXCEPT !.stages = Append(@, "ma7"), !.ma7 = r.value,
                                   !.pc = "ma7_weighted"]
    /\ UNCHANGED <<ma, norm, agg, dr>>

\* Lines 260-264.
MainMA7Weighted ==
    /\ run.pc = "ma7_weighted"
    /\ LET r == calculate_moving_average(run.sales, MAWindow, MainWeights)
       IN  run' = IF r.status = "raised" THEN Fail("ma7_weighted", r.exc)
                  ELSE [run EXCEPT !.stages = Append(@, "ma7_weighted"),
                                   !.ma7_weighted = r.value, !.pc = "draw"]
    /\ UNCHANGED <<ma, norm, agg, dr>>

\* The int counts as values in hundredths.
Hundredths(sales) == [k \in 1..Len(sales) |-> Some(100 * sales[k])]

\* Lines 266-271.
MainDraw ==
    /\ run.pc = "draw"
    /\ LET r == draw(<< <<Hundredths(run.sales), "Daily Sales", "block">>,
                        <<run.ma7, "7-day Moving Average", "diamond">>,
                        <<run.ma7_weighted, "7-day Weighted MA", "circle">> >>,
                     Countdown(DaysToFetch))
       IN  run' = IF r.status = "raised" THEN Fail("draw", r.exc)
                  ELSE [run EXCEPT !.stages = Append(@, "draw"),
                                   !.visualization = r.value, !.pc = "print"]
    /\ UNCHANGED <<ma, norm, agg, dr>>

\* Lines 273-274: print(visualization) and the closing prompt.
MainPrint ==
    /\ run.pc = "print"
    /\ run' = [run EXCEPT !.stages = Append(@, "print"),
                          !.stdout = @ \o <<"visualization", "[Press any key to exit]">>,
                          !.pc = "done"]
    /\ UNCHANGED <<ma, norm, agg, dr>>

\* Lines 276-279: the three lines of the boxed error message.
MainExcept ==
    /\ run.pc = "except"
    /\ run' = [run EXCEPT !.stdout = Append(@, "ERROR box"), !.pc = "done"]
    /\ UNCHANGED <<ma, norm, agg, dr>>

NextMain ==
    \/ MainKeysFail
    \/ MainStart
    \/ \E orders \in PageInputs : FetchPage(orders)
    \/ FetchEmpty
    \/ FetchError
    \/ MainAggregate
    \/ MainMA7
    \/ MainMA7Weighted
    \/ MainDraw
    \/ MainPrint
    \/ MainExcept

InitMain == RunInit /\ ma = Idle /\ norm = Idle /\ agg = Idle /\ dr = Idle

SpecMain == InitMain /\ [][NextMain]_vars

Pipeline == <<"fetch", "aggregate", "ma7", "ma7_weighted", "draw", "print">>

Count(seq, x) == Cardinality({k \in 1..Len(seq) : seq[k] = x})

Printed(x) == \E k \in 1..Len(run.stdout) : run.stdout[k] = x

\* C9: the pipeline is fail-fast.  The stages run once each and in order (no
\* retry); once a stage has failed it is the last stage that ran, the chart
\* is never printed and the run ends with exactly one error message; the
\* chart is printed only when every stage succeeded, with no error message.
C9_FailFast ==
    /\ Len(run.stages) <= Len(Pipeline)
    /\ \A k \in 1..Len(run.stages) : run.stages[k] = Pipeline[k]
    /\ Count(run.stdout, "ERROR box") <= 1
    /\ Printed("ERROR box") => run.failed # "none"
    /\ run.failed # "none" =>
          /\ run.stages # <<>> /\ run.stages[Len(run.stages)] = run.failed
          /\ ~Printed("visualization")
          /\ run.pc \in {"except", "done"}
          /\ run.pc = "done" => Count(run.stdout, "ERROR box") = 1
    /\ (run.fetch = "returned" /\ run.pc # "aggregate"
            /\ \E k \in 1..Len(run.all_orders) : ~run.all_orders[k].date_created.valid)
          => run.failed = "aggregate"
    /\ run.fetch = "raised" => run.failed = "fetch"
    /\ Printed("visualization") =>
          /\ run.stages = Pipeline
          /\ run.failed = "none" /\ run.exc = "none"
          /\ ~Printed("ERROR box")
          /\ Count(run.stdout, "visualization") = 1

\* The aggregation failed on a corrupt order after two pages were fetched;
\* the run ended with the error message alone.
C9_Witness ==
    /\ run.pc = "done" /\ run.failed = "aggregate"
    /\ run.stages = <<"fetch", "aggregate">>
    /\ Len(run.requests) = 3
    /\ run.stdout = <<"header", "Fetching sales data...", "ERROR box">>

\* C8 as stated, for the call main makes: the canvas is 3 * len(labels) - 1
\* columns wide and 20 rows high, and every plot row carries that many cells.
C8_AsStated ==
    (run.failed = "none" /\ run.pc \in {"print", "done"}) =>
        /\ Len(run.visualization.rows) = 20
        /\ \A i \in 1..Len(run.visualization.rows) :
              Len(run.visualization.rows[i].cells) = 3 * Len(Countdown(DaysToFetch)) - 1

RECURSIVE Concat(_)
Concat(pages) == IF pages = <<>> THEN <<>> ELSE Head(pages) \o Concat(Tail(pages))

\* C10: get_sales_data requests pages 1, 2, 3, ... in order, each once; it
\* stops at the first empty page and returns the non-empty pages before it,
\* concatenated in page order, requesting nothing after; it returns exactly
\* when an empty page has come back.
C10_PagedFetch ==
    run.fetch # "idle" =>
        /\ run.requests = [k \in 1..Len(run.requests) |-> k]
        /\ run.fetch = "running" =>
              /\ Len(run.responses) = Len(run.requests)
              /\ run.page = Len(run.requests) + 1
              /\ run.all_orders = Concat(run.responses)
        /\ run.fetch = "returned" =>
              /\ Len(run.responses) = Len(run.requests)
              /\ run.responses[Len(run.responses)] = <<>>
              /\ run.all_orders = Concat(SubSeq(run.responses, 1, Len(run.responses) - 1))
        /\ \A k \in 1..(Len(run.responses) - 1) : run.responses[k] # <<>>
        /\ (run.fetch = "returned") <=> (\E k \in 1..Len(run.responses) : run.responses[k] = <<>>)

\* Two different non-empty pages, then the empty one.
C10_Witness ==
    /\ run.fetch = "returned" /\ run.requests = <<1, 2, 3>>
    /\ run.responses = << <<Jan(2, 9), Jan(1, 17)>>, <<Jan(1, 9)>>, <<>> >>
    /\ run.all_orders = <<Jan(2, 9), Jan(1, 17), Jan(1, 9)>>
    /\ run.pc = "done"

==========================================================================
